---- MODULE Spec2Model ----
(***************************************************************************)
(* Travel Nest Cabs backend (FastAPI + SQLAlchemy): bookings, admins and   *)
(* GST invoices.  The persistent store is the three tables of models.py;   *)
(* every HTTP handler of main.py is a process that takes one step per      *)
(* database round trip (a query, or a commit), so that requests of         *)
(* different clients interleave between their queries and their commits.   *)
(* The two handlers that only read (view_bookings, resend_invoice_whatsapp)*)
(* are issued one request at a time and take their queries in one step.    *)
(* Amounts are integers in hundredths of a rupee.                          *)
(***************************************************************************)
EXTENDS Integers, Sequences, FiniteSets, TLC

(* ------------------------------ bounds -------------------------------- *)
NumProcs == 2          \* clients that may have a request in flight
MaxBookings == 1       \* bookings rows at which create_booking is still issued
MaxAdmins == 1         \* admins rows at which create_admin is still issued
MaxPriceK == 1         \* prices are 0, PriceStep, ..., MaxPriceK * PriceStep
PriceStep == 15        \* hundredths; 15 -> tax 0.75, 30 -> tax 1.5 (a tie)
FrameBookings == 2     \* bookings rows of the runs that watch other rows
MaxPhoneLen == 3       \* characters of a submitted phone string

Procs == 1..NumProcs
BookingIds == 1..MaxBookings
Prices == {k * PriceStep : k \in 0..MaxPriceK}
Usernames == {"admin", "ops"}
Passwords == {"pw1", "pw2"}

(* phone: str, as the sequence of its characters *)
PhoneChars == {"+", "0", "9", " ", "\t"}
Phones == UNION {[1..n -> PhoneChars] : n \in 0..MaxPhoneLen}
DefaultPhone == <<"0", "9">>

(* ------------------------------ schemas ------------------------------- *)
BookingStatusUpdate_WithInvoiced ==
    {"PENDING", "CONFIRMED", "COMPLETED", "CANCELLED", "INVOICED"}

BookingStatusUpdate == {"PENDING", "CONFIRMED", "COMPLETED", "CANCELLED"}
InvoiceStatusUpdate ==
    {"NOT_GENERATED", "GENERATED", "SENT", "PAID", "CANCELLED"}

NULL == "NULL"
None == "None"

(* str.strip().upper() on the status strings the program handles: the text *)
(* without surrounding blanks, every letter in upper case.                 *)
StripUpper(s) ==
    CASE s \in {"pending", "Pending", " PENDING "} -> "PENDING"
      [] s \in {"confirmed", "Confirmed", " CONFIRMED "} -> "CONFIRMED"
      [] s \in {"completed", "Completed", " COMPLETED "} -> "COMPLETED"
      [] s \in {"cancelled", "Cancelled", " CANCELLED "} -> "CANCELLED"
      [] s \in {"invoiced", "Invoiced", " INVOICED "} -> "INVOICED"
      [] OTHER -> s

(* ------------------------------ models -------------------------------- *)
(* Booking built from the request body: booking_number is never given;     *)
(* status takes the column default, created_at the time of the INSERT.     *)
Booking_Confirmed(phone, price, now) ==
    [booking_number |-> NULL, phone |-> phone, price |-> price,
     status |-> "CONFIRMED", created_at |-> now]

Booking(phone, price, now) ==
    [booking_number |-> NULL, phone |-> phone, price |-> price,
     status |-> "PENDING", created_at |-> now]

INVOICE_NO(booking_id) == "TNC-INV-" \o ToString(booking_id)

(* generate_invoice: writes the PDF and returns its path *)
generate_invoice(invoice_no) == "invoices/" \o invoice_no \o ".pdf"

(* Bases (hundredths, up to 2000) for which base * 0.05 is a tie between   *)
(* two hundredths and IEEE double arithmetic followed by Python's          *)
(* round(x, 2) yields the lower one; every other tie yields the upper one. *)
TiesRoundedDown ==
    {30, 70, 230, 250, 290, 410, 430, 610, 710, 730, 870, 970, 1170, 1210,
     1250, 1470, 1670, 1690, 1890, 1970, 1990}

Abs(n) == IF n < 0 THEN -n ELSE n

GstFloor(base) == (5 * base) \div 100

(* gst = round(base * 0.05, 2), in hundredths; round is odd-symmetric *)
Gst(base) ==
    LET a == Abs(base)
        q == (5 * a) \div 100
        r == (5 * a) % 100
        m == IF r < 50 THEN q
             ELSE IF r > 50 THEN q + 1
             ELSE IF a \in TiesRoundedDown THEN q ELSE q + 1
    IN  IF base < 0 THEN -m ELSE m

(* Invoice(...) as both invoicing paths construct it *)
Invoice(booking_id, base) ==
    [booking_id |-> booking_id,
     invoice_no |-> INVOICE_NO(booking_id),
     base_amount |-> base,
     gst_amount |-> Gst(base),
     total_amount |-> base + Gst(base),
     pdf_path |-> generate_invoice(INVOICE_NO(booking_id)),
     status |-> "Generated"]

NoInvoice == Invoice(0, 0)

(* db.query(Invoice).filter(Invoice.booking_id == booking_id).first():     *)
(* the id of the first matching row, 0 when there is none.                 *)
ExistingInvoice_Absent(invs, booking_id) == 0

ExistingInvoice(invs, booking_id) ==
    LET hits == {i \in DOMAIN invs : invs[i].booking_id = booking_id}
    IN  IF hits = {} THEN 0 ELSE CHOOSE i \in hits : \A j \in hits : i <= j

(* unique=True on Invoice.booking_id and Invoice.invoice_no: the INSERT of *)
(* inv raises IntegrityError when a stored row has either value.           *)
InvoiceUniqueViolation_Off(invs, inv) == FALSE

InvoiceUniqueViolation(invs, inv) ==
    \E i \in DOMAIN invs :
        \/ invs[i].booking_id = inv.booking_id
        \/ invs[i].invoice_no = inv.invoice_no

(* The unit of work flushes an UPDATE of the status column only when the   *)
(* attribute differs from the value the session loaded.                    *)
FlushStatus_Guarded(rows, id, loaded, new) ==
    IF loaded = new \/ rows[id].status = "INVOICED" THEN rows
    ELSE [rows EXCEPT ![id].status = new]

FlushStatus_Deferred(rows, id, loaded, new) ==
    IF loaded = new \/ new = "COMPLETED" THEN rows
    ELSE [rows EXCEPT ![id].status = new]

FlushStatus(rows, id, loaded, new) ==
    IF loaded = new THEN rows ELSE [rows EXCEPT ![id].status = new]

(* booking.status = "INVOICED"  (SYSTEM STATE) *)
SystemState_Completed == "COMPLETED"

SystemState == "INVOICED"

(* if booking.status.upper() != "COMPLETED": raise 400 *)
NotCompleted_OnlyPending(status) == StripUpper(status) = "PENDING"

NotCompleted(status) == StripUpper(status) # "COMPLETED"

(* if invoice.status == "Paid": raise 400 *)
PaidLocked(status) == status = "Paid"

get_base_url == "http://127.0.0.1:8000"

(* characters str.strip() removes from both ends *)
Whitespace == {" ", "\t"}

RECURSIVE LStrip(_)
LStrip(s) ==
    IF s # <<>> /\ Head(s) \in Whitespace THEN LStrip(Tail(s)) ELSE s

RECURSIVE RStrip(_)
RStrip(s) ==
    IF s # <<>> /\ s[Len(s)] \in Whitespace
    THEN RStrip(SubSeq(s, 1, Len(s) - 1)) ELSE s

(* str.strip() *)
Strip(s) == RStrip(LStrip(s))

(* str.replace(old, ""): every occurrence of the character old removed *)
Remove(s, old) == SelectSeq(s, LAMBDA c : c # old)

(* the characters of a str, put together again *)
RECURSIVE Join(_)
Join(s) == IF s = <<>> THEN "" ELSE Head(s) \o Join(Tail(s))

(* phone.strip().replace(" ", "").replace("+", ""), then a leading "0"     *)
(* replaced by "91"                                                        *)
NormalizePhone(phone) ==
    LET digits == Remove(Remove(Strip(phone), " "), "+")
    IN  IF digits # <<>> /\ Head(digits) = "0"
        THEN <<"9", "1">> \o Tail(digits)
        ELSE digits

(* urllib.parse.quote of the message, which embeds the invoice URL; the    *)
(* message's blanks and colon are encoded, the encoding of the URL's own   *)
(* characters is left out.                                                 *)
quote(invoice_url) == "Your%20invoice%20is%20ready%3A%20" \o invoice_url

(* generate_whatsapp_link(phone, invoice_url) *)
generate_whatsapp_link(phone, invoice_url) ==
    "https://wa.me/" \o Join(NormalizePhone(phone))
        \o "?text=" \o quote(invoice_url)

(* auth.hash_password / auth.verify_password *)
hash_password(password) == "hash:" \o password
verify_password(password, hashed) == hashed = hash_password(password)

(* ------------------------------- state -------------------------------- *)
VARIABLES
    bookings,   \* table bookings: row id |-> Booking
    invoices,   \* table invoices: row id |-> Invoice
    admins,     \* table admins: row id |-> [username, password]
    req,        \* per client: the request it has in flight
    resp,       \* the response sent last
    loggedIn    \* clients whose admin_login has succeeded (history)

vars == <<bookings, invoices, admins, req, resp, loggedIn>>

(* A client with no request in flight.  op/pc: the handler and its next    *)
(* step; id, status, username, password: the request's inputs; seen: the   *)
(* status column as the session loaded it; pending: the Invoice added to   *)
(* the session and not yet flushed.                                        *)
Idle ==
    [op |-> "none", pc |-> "idle", id |-> 0, status |-> "", username |-> "",
     password |-> "", seen |-> "", pending |-> NoInvoice]

Request(op, pc, id) == [Idle EXCEPT !.op = op, !.pc = pc, !.id = id]

(* Results: OK (200), NotFound (404), InvalidState (400), AlreadyExists    *)
(* (400), Unauthorized (401); RenderFailed and IntegrityError are the two  *)
(* unhandled exceptions, both surfacing as Internal (500).                 *)
(* op, id and username name the request r that a response answers; body is *)
(* the list                                                                *)
(* view_bookings returns.                                                  *)
Response(r, result, message) ==
    [op |-> r.op, id |-> r.id, username |-> r.username,
     result |-> result, message |-> message,
     invoice_url |-> None, invoice_status |-> None, whatsapp_link |-> None,
     body |-> <<>>]

NoResponse == Response(Idle, "", "")

Quiescent == \A q \in Procs : req[q] = Idle

Init ==
    /\ bookings = <<>>
    /\ invoices = <<>>
    /\ admins = <<>>
    /\ req = [p \in Procs |-> Idle]
    /\ resp = NoResponse
    /\ loggedIn = {}

(* ---------------------------- create_booking -------------------------- *)
create_booking(p, phone, price) ==
    /\ req[p] = Idle
    /\ bookings' = Append(bookings, Booking(phone, price, Len(bookings) + 1))
    /\ resp' = Response(Request("create_booking", "query", 0),
            "OK", "Booking created successfully")
    /\ UNCHANGED <<invoices, admins, req, loggedIn>>

(* ------------------------- update_booking_status ---------------------- *)
(* booking = db.query(Booking)...first(); 404 when absent *)
update_booking_status_query(p, booking_id, status) ==
    /\ req[p] = Idle
    /\ IF booking_id \notin DOMAIN bookings
       THEN /\ resp' = Response(Request("update_booking_status", "query", booking_id),
               "NotFound", "Booking not found")
            /\ UNCHANGED req
       ELSE /\ req' = [req EXCEPT ![p] =
                    [Request("update_booking_status", "commit", booking_id)
                        EXCEPT !.status = status,
                               !.seen = bookings[booking_id].status]]
            /\ UNCHANGED resp
    /\ UNCHANGED <<bookings, invoices, admins, loggedIn>>

(* booking.status = new_status; db.commit(); returns unless COMPLETED *)
update_booking_status_commit(p) ==
    /\ req[p].op = "update_booking_status"
    /\ req[p].pc = "commit"
    /\ LET new_status == StripUpper(req[p].status)
       IN  /\ bookings' =
                FlushStatus(bookings, req[p].id, req[p].seen, new_status)
           /\ IF new_status = "COMPLETED"
              THEN /\ req' = [req EXCEPT ![p] =
                           [req[p] EXCEPT !.pc = "invoice", !.seen = ""]]
                   /\ UNCHANGED resp
              ELSE /\ req' = [req EXCEPT ![p] = Idle]
                   /\ resp' = Response(req[p], "OK", "Booking status updated")
    /\ UNCHANGED <<invoices, admins, loggedIn>>

(* existing_invoice query; when absent, the expired booking is reloaded,   *)
(* the fare computed and the PDF rendered (which may raise).               *)
update_booking_status_invoice(p, rendered) ==
    /\ req[p].op = "update_booking_status"
    /\ req[p].pc = "invoice"
    /\ IF ExistingInvoice(invoices, req[p].id) # 0
       THEN /\ req' = [req EXCEPT ![p] = Idle]
            /\ resp' = Response(req[p], "OK", "Booking status updated")
       ELSE IF ~rendered
       THEN /\ req' = [req EXCEPT ![p] = Idle]
            /\ resp' = Response(req[p],
                    "RenderFailed", "Internal Server Error")
       ELSE /\ req' = [req EXCEPT ![p] =
                    [req[p] EXCEPT
                        !.pc = "commit2",
                        !.seen = bookings[req[p].id].status,
                        !.pending =
                            Invoice(req[p].id, bookings[req[p].id].price)]]
            /\ UNCHANGED resp
    /\ UNCHANGED <<bookings, invoices, admins, loggedIn>>

(* db.add(invoice); booking.status = "INVOICED"; db.commit(); link built *)
update_booking_status_commit2(p) ==
    /\ req[p].op = "update_booking_status"
    /\ req[p].pc = "commit2"
    /\ IF InvoiceUniqueViolation(invoices, req[p].pending)
       THEN /\ resp' = Response(req[p],
               "IntegrityError", "Internal Server Error")
            /\ UNCHANGED <<bookings, invoices>>
       ELSE /\ invoices' = Append(invoices, req[p].pending)
            /\ bookings' =
                 FlushStatus(bookings, req[p].id, req[p].seen, SystemState)
            /\ resp' = [Response(req[p], "OK", "Booking status updated") EXCEPT
                        !.whatsapp_link = generate_whatsapp_link(
                            bookings[req[p].id].phone,
                            get_base_url \o "/" \o req[p].pending.pdf_path)]
    /\ req' = [req EXCEPT ![p] = Idle]
    /\ UNCHANGED <<admins, loggedIn>>

(* ------------------------- generate_gst_invoice ----------------------- *)
(* booking = db.query(Booking)...first(); 404 when absent *)
generate_gst_invoice_query(p, booking_id) ==
    /\ req[p] = Idle
    /\ IF booking_id \notin DOMAIN bookings
       THEN /\ resp' = Response(Request("generate_gst_invoice", "query", booking_id),
               "NotFound", "Booking not found")
            /\ UNCHANGED req
       ELSE /\ req' = [req EXCEPT ![p] =
                    [Request("generate_gst_invoice", "invoice", booking_id)
                        EXCEPT !.seen = bookings[booking_id].status]]
            /\ UNCHANGED resp
    /\ UNCHANGED <<bookings, invoices, admins, loggedIn>>

(* existing_invoice query: an existing invoice is returned as it is;       *)
(* otherwise the status check, the fare and the rendering.                 *)
generate_gst_invoice_invoice(p, rendered) ==
    /\ req[p].op = "generate_gst_invoice"
    /\ req[p].pc = "invoice"
    /\ LET existing == ExistingInvoice(invoices, req[p].id)
       IN  IF existing # 0
           THEN /\ req' = [req EXCEPT ![p] = Idle]
                /\ resp' = [Response(req[p],
                        "OK", "Invoice already generated") EXCEPT
                        !.invoice_url = "/" \o invoices[existing].pdf_path,
                        !.invoice_status = invoices[existing].status]
           ELSE IF NotCompleted(req[p].seen)
           THEN /\ req' = [req EXCEPT ![p] = Idle]
                /\ resp' = Response(req[p], "InvalidState",
                        "Invoice can be generated only after ride completion")
           ELSE IF ~rendered
           THEN /\ req' = [req EXCEPT ![p] = Idle]
                /\ resp' = Response(req[p],
                        "RenderFailed", "Internal Server Error")
           ELSE /\ req' = [req EXCEPT ![p] =
                        [req[p] EXCEPT
                            !.pc = "commit",
                            !.pending = Invoice(req[p].id,
                                                bookings[req[p].id].price)]]
                /\ UNCHANGED resp
    /\ UNCHANGED <<bookings, invoices, admins, loggedIn>>

(* db.add(invoice); booking.status = "INVOICED"; db.commit() *)
generate_gst_invoice_commit(p) ==
    /\ req[p].op = "generate_gst_invoice"
    /\ req[p].pc = "commit"
    /\ IF InvoiceUniqueViolation(invoices, req[p].pending)
       THEN /\ resp' = Response(req[p],
               "IntegrityError", "Internal Server Error")
            /\ UNCHANGED <<bookings, invoices>>
       ELSE /\ invoices' = Append(invoices, req[p].pending)
            /\ bookings' =
                 FlushStatus(bookings, req[p].id, req[p].seen, SystemState)
            /\ resp' = [Response(req[p],
                    "OK", "GST Invoice generated successfully")
                        EXCEPT
                        !.invoice_url = "/" \o req[p].pending.pdf_path,
                        !.invoice_status = "Generated"]
    /\ req' = [req EXCEPT ![p] = Idle]
    /\ UNCHANGED <<admins, loggedIn>>

(* ------------------------- update_invoice_status ---------------------- *)
(* invoice query; 404 when absent, 400 when the stored status is "Paid" *)
update_invoice_status_query(p, invoice_id, status) ==
    /\ req[p] = Idle
    /\ IF invoice_id \notin DOMAIN invoices
       THEN /\ resp' = Response(Request("update_invoice_status", "query", invoice_id),
               "NotFound", "Invoice not found")
            /\ UNCHANGED req
       ELSE IF PaidLocked(invoices[invoice_id].status)
       THEN /\ resp' = Response(Request("update_invoice_status", "query", invoice_id),
               "InvalidState",
                                "Paid invoice cannot be modified")
            /\ UNCHANGED req
       ELSE /\ req' = [req EXCEPT ![p] =
                    [Request("update_invoice_status", "commit", invoice_id)
                        EXCEPT !.status = status,
                               !.seen = invoices[invoice_id].status]]
            /\ UNCHANGED resp
    /\ UNCHANGED <<bookings, invoices, admins, loggedIn>>

(* invoice.status = data.status; db.commit() *)
update_invoice_status_commit(p) ==
    /\ req[p].op = "update_invoice_status"
    /\ req[p].pc = "commit"
    /\ invoices' =
         FlushStatus(invoices, req[p].id, req[p].seen, req[p].status)
    /\ req' = [req EXCEPT ![p] = Idle]
    /\ resp' = [Response(req[p], "OK", "Invoice status updated") EXCEPT
                    !.invoice_status = req[p].status]
    /\ UNCHANGED <<bookings, admins, loggedIn>>

(* ------------------------------ create_admin -------------------------- *)
(* unique=True on Admin.username *)
AdminUniqueViolation_Off(rows, username) == FALSE

AdminUniqueViolation(rows, username) ==
    \E i \in DOMAIN rows : rows[i].username = username

(* db.query(Admin).filter(Admin.username == ...).first(); 400 when found *)
create_admin_query(p, username, password) ==
    /\ req[p] = Idle
    /\ IF \E i \in DOMAIN admins : admins[i].username = username
       THEN /\ resp' = Response([Request("create_admin", "query", 0)
                                    EXCEPT !.username = username],
               "AlreadyExists", "Admin already exists")
            /\ UNCHANGED req
       ELSE /\ req' = [req EXCEPT ![p] =
                    [Request("create_admin", "commit", 0)
                        EXCEPT !.username = username,
                               !.password = hash_password(password)]]
            /\ UNCHANGED resp
    /\ UNCHANGED <<bookings, invoices, admins, loggedIn>>

(* db.add(admin); db.commit() *)
create_admin_commit(p) ==
    /\ req[p].op = "create_admin"
    /\ req[p].pc = "commit"
    /\ IF AdminUniqueViolation(admins, req[p].username)
       THEN /\ resp' = Response(req[p],
               "IntegrityError", "Internal Server Error")
            /\ UNCHANGED admins
       ELSE /\ admins' = Append(admins, [username |-> req[p].username,
                                         password |-> req[p].password])
            /\ resp' = Response(req[p], "OK", "Admin created successfully")
    /\ req' = [req EXCEPT ![p] = Idle]
    /\ UNCHANGED <<bookings, invoices, loggedIn>>

(* ------------------------------- admin_login -------------------------- *)
(* 401 unless the username is stored and the password verifies; the        *)
(* response carries no token and the server keeps no session.              *)
admin_login(p, username, password) ==
    /\ req[p] = Idle
    /\ IF \E i \in DOMAIN admins :
            /\ admins[i].username = username
            /\ verify_password(password, admins[i].password)
       THEN /\ resp' = Response(Request("admin_login", "query", 0),
               "OK", "Login successful")
            /\ loggedIn' = loggedIn \cup {p}
       ELSE /\ resp' = Response(Request("admin_login", "query", 0),
               "Unauthorized", "Invalid credentials")
            /\ UNCHANGED loggedIn
    /\ UNCHANGED <<bookings, invoices, admins, req>>

(* ------------------------------ view_bookings ------------------------- *)
(* db.query(Booking).all() has no ORDER BY: the store returns the rows in   *)
(* an order of its choosing.                                               *)
RowOrders(rows) ==
    {o \in [DOMAIN rows -> DOMAIN rows] :
        \A i, j \in DOMAIN rows : i # j => o[i] # o[j]}

(* one entry per row returned, invoice_exists from a query per row *)
view_bookings(p, order) ==
    /\ req[p] = Idle
    /\ order \in RowOrders(bookings)
    /\ resp' = [Response(Request("view_bookings", "query", 0), "OK", "")
                EXCEPT !.body =
                    [k \in DOMAIN order |->
                        [id |-> order[k],
                         phone |-> bookings[order[k]].phone,
                         price |-> bookings[order[k]].price,
                         status |-> bookings[order[k]].status,
                         invoice_exists |->
                            ExistingInvoice(invoices, order[k]) # 0]]]
    /\ UNCHANGED <<bookings, invoices, admins, req, loggedIn>>

(* ----------------------- resend_invoice_whatsapp ---------------------- *)
(* 404 when the booking is absent, 400 when it has no invoice; otherwise   *)
(* the link is built again from the stored pdf_path.                       *)
resend_invoice_whatsapp(p, booking_id) ==
    /\ req[p] = Idle
    /\ LET r == Request("resend_invoice_whatsapp", "query", booking_id)
           invoice == ExistingInvoice(invoices, booking_id)
       IN  resp' =
             IF booking_id \notin DOMAIN bookings
             THEN Response(r, "NotFound", "Booking not found")
             ELSE IF invoice = 0
             THEN Response(r, "InvalidState", "Invoice not generated yet")
             ELSE [Response(r, "OK", "WhatsApp invoice link generated")
                    EXCEPT !.whatsapp_link = generate_whatsapp_link(
                        bookings[booking_id].phone,
                        get_base_url \o "/" \o invoices[invoice].pdf_path)]
    /\ UNCHANGED <<bookings, invoices, admins, req, loggedIn>>

(* --------------------------- specifications --------------------------- *)
(* Requests of the invoicing workflow, interleaved at every round trip. *)
Next ==
    \/ \E p \in Procs, price \in Prices :
            Len(bookings) < MaxBookings
                /\ create_booking(p, DefaultPhone, price)
    \/ \E p \in Procs, b \in BookingIds, s \in BookingStatusUpdate :
            update_booking_status_query(p, b, s)
    \/ \E p \in Procs : update_booking_status_commit(p)
    \/ \E p \in Procs, rendered \in BOOLEAN :
            update_booking_status_invoice(p, rendered)
    \/ \E p \in Procs : update_booking_status_commit2(p)
    \/ \E p \in Procs, b \in BookingIds : generate_gst_invoice_query(p, b)
    \/ \E p \in Procs, rendered \in BOOLEAN :
            generate_gst_invoice_invoice(p, rendered)
    \/ \E p \in Procs : generate_gst_invoice_commit(p)

Spec == Init /\ [][Next]_vars

(* One request at a time, each run to completion before the next arrives: *)
(* a single client, which issues a request only when it has none in flight. *)
Client == CHOOSE p \in Procs : \A q \in Procs : p <= q

SeqNext ==
    \/ \E price \in Prices :
            Len(bookings) < MaxBookings
                /\ create_booking(Client, DefaultPhone, price)
    \/ \E b \in BookingIds, s \in BookingStatusUpdate :
            update_booking_status_query(Client, b, s)
    \/ update_booking_status_commit(Client)
    \/ \E rendered \in BOOLEAN : update_booking_status_invoice(Client, rendered)
    \/ update_booking_status_commit2(Client)
    \/ \E b \in BookingIds : generate_gst_invoice_query(Client, b)
    \/ \E rendered \in BOOLEAN : generate_gst_invoice_invoice(Client, rendered)
    \/ generate_gst_invoice_commit(Client)
    \/ \E i \in BookingIds, s \in InvoiceStatusUpdate :
            update_invoice_status_query(Client, i, s)
    \/ update_invoice_status_commit(Client)

SeqSpec == Init /\ [][SeqNext]_vars

(* The admin endpoints as any client may call them, logged in or not; one  *)
(* request at a time.                                                      *)
GateNext ==
    \/ \E p \in Procs, u \in Usernames, w \in Passwords :
            Quiescent /\ Len(admins) < MaxAdmins
                      /\ create_admin_query(p, u, w)
    \/ \E p \in Procs : create_admin_commit(p)
    \/ \E p \in Procs, u \in Usernames, w \in Passwords :
            Quiescent /\ admin_login(p, u, w)
    \/ \E p \in Procs :
            Quiescent /\ Len(bookings) < MaxBookings
                      /\ create_booking(p, DefaultPhone, PriceStep)
    \/ \E p \in Procs, b \in BookingIds, s \in BookingStatusUpdate :
            Quiescent /\ update_booking_status_query(p, b, s)
    \/ \E p \in Procs : update_booking_status_commit(p)
    \/ \E p \in Procs, rendered \in BOOLEAN :
            update_booking_status_invoice(p, rendered)
    \/ \E p \in Procs : update_booking_status_commit2(p)
    \/ \E p \in Procs, i \in BookingIds, s \in InvoiceStatusUpdate :
            Quiescent /\ update_invoice_status_query(p, i, s)
    \/ \E p \in Procs : update_invoice_status_commit(p)

GateSpec == Init /\ [][GateNext]_vars

(* Admin provisioning and login by clients whose requests interleave. *)
AdminNext ==
    \/ \E p \in Procs, u \in Usernames, w \in Passwords :
            Len(admins) <= MaxAdmins /\ create_admin_query(p, u, w)
    \/ \E p \in Procs : create_admin_commit(p)
    \/ \E p \in Procs, u \in Usernames, w \in Passwords :
            admin_login(p, u, w)

AdminSpec == Init /\ [][AdminNext]_vars

(* Every handler that touches bookings or invoices, one request at a time, *)
(* over several bookings.                                                  *)
FrameIds == 1..FrameBookings

FrameNext ==
    \/ Len(bookings) < FrameBookings
            /\ create_booking(Client, DefaultPhone, PriceStep)
    \/ \E b \in FrameIds, s \in BookingStatusUpdate :
            update_booking_status_query(Client, b, s)
    \/ update_booking_status_commit(Client)
    \/ \E rendered \in BOOLEAN : update_booking_status_invoice(Client, rendered)
    \/ update_booking_status_commit2(Client)
    \/ \E b \in FrameIds : generate_gst_invoice_query(Client, b)
    \/ \E rendered \in BOOLEAN : generate_gst_invoice_invoice(Client, rendered)
    \/ generate_gst_invoice_commit(Client)
    \/ \E i \in FrameIds, s \in InvoiceStatusUpdate :
            update_invoice_status_query(Client, i, s)
    \/ update_invoice_status_commit(Client)
    \/ \E b \in FrameIds : resend_invoice_whatsapp(Client, b)
    \/ \E order \in RowOrders(bookings) : view_bookings(Client, order)

FrameSpec == Init /\ [][FrameNext]_vars

(* Admin provisioning, submission, completion, invoicing and the resending *)
(* of links over several bookings, one request at a time.                  *)
ResendNext ==
    \/ \E u \in Usernames :
            Len(admins) < MaxAdmins /\ create_admin_query(Client, u, "pw1")
    \/ create_admin_commit(Client)
    \/ Len(bookings) < FrameBookings
            /\ create_booking(Client, DefaultPhone, PriceStep)
    \/ \E b \in FrameIds, s \in BookingStatusUpdate :
            update_booking_status_query(Client, b, s)
    \/ update_booking_status_commit(Client)
    \/ \E rendered \in BOOLEAN : update_booking_status_invoice(Client, rendered)
    \/ update_booking_status_commit2(Client)
    \/ \E b \in FrameIds : generate_gst_invoice_query(Client, b)
    \/ \E rendered \in BOOLEAN : generate_gst_invoice_invoice(Client, rendered)
    \/ generate_gst_invoice_commit(Client)
    \/ \E b \in FrameIds : resend_invoice_whatsapp(Client, b)

ResendSpec == Init /\ [][ResendNext]_vars

(* Bookings submitted with any phone string, completed and their link sent *)
(* again, one request at a time.                                           *)
PhoneNext ==
    \/ \E phone \in Phones :
            Len(bookings) < MaxBookings
                /\ create_booking(Client, phone, PriceStep)
    \/ \E b \in BookingIds : update_booking_status_query(Client, b, "COMPLETED")
    \/ update_booking_status_commit(Client)
    \/ \E rendered \in BOOLEAN : update_booking_status_invoice(Client, rendered)
    \/ update_booking_status_commit2(Client)
    \/ \E b \in BookingIds : resend_invoice_whatsapp(Client, b)

PhoneSpec == Init /\ [][PhoneNext]_vars

(* ------------------------------- claims ------------------------------- *)
InvoicesOf(b) == {i \in DOMAIN invoices : invoices[i].booking_id = b}

(* C1: once an invoice's stored status is PAID it stays PAID: no later     *)
(* update-invoice-status call changes it.                                  *)
C1_PaidIsTerminal ==
    [][\A i \in DOMAIN invoices :
            invoices[i].status = "PAID" => invoices'[i].status = "PAID"]_vars

(* C2: when an update-booking-status call with target COMPLETED on a       *)
(* booking that has no Invoice returns and its rendering did not fail, the *)
(* call succeeded, exactly one Invoice exists for the booking and the      *)
(* booking's stored status is INVOICED.                                    *)
C2_AutoInvoiceOnCompletion ==
    [][\A b \in DOMAIN bookings :
            ( /\ req[Client].op = "update_booking_status"
              /\ req[Client].id = b
              /\ req[Client].status = "COMPLETED"
              /\ req'[Client] = Idle
              /\ InvoicesOf(b) = {}
              /\ resp'.result # "RenderFailed" )
            => /\ resp'.result = "OK"
               /\ Cardinality({i \in DOMAIN invoices' :
                                invoices'[i].booking_id = b}) = 1
               /\ bookings'[b].status = "INVOICED"]_vars

C2_Witness ==
    /\ resp.op = "update_booking_status"
    /\ resp.result = "OK"
    /\ resp.whatsapp_link # None
    /\ req[Client] = Idle
    /\ resp.id \in DOMAIN bookings
    /\ bookings[resp.id].status = "INVOICED"
    /\ Cardinality(InvoicesOf(resp.id)) = 1

(* C3: in every reachable state of the interleaved requests no booking has *)
(* more than one Invoice.                                                  *)
C3_OneInvoicePerBooking ==
    \A b \in BookingIds : Cardinality(InvoicesOf(b)) <= 1

(* two requests raced past the existence check; the loser's INSERT failed *)
C3_Witness ==
    /\ resp.result = "IntegrityError"
    /\ resp.op \in {"update_booking_status", "generate_gst_invoice"}
    /\ Cardinality(InvoicesOf(resp.id)) = 1

(* C4: a manual invoice generation that directly follows a successful one  *)
(* on the same booking succeeds, returns the same invoice locator, changes *)
(* no stored Invoice, and the booking has exactly one Invoice.             *)
C4_ManualGenerationIdempotent ==
    [][\A b \in DOMAIN bookings :
            ( /\ resp.op = "generate_gst_invoice"
              /\ resp.id = b
              /\ resp.result = "OK"
              /\ req[Client].op = "generate_gst_invoice"
              /\ req[Client].id = b
              /\ req'[Client] = Idle )
            => /\ resp'.result = "OK"
               /\ resp'.invoice_url = resp.invoice_url
               /\ invoices' = invoices
               /\ Cardinality(InvoicesOf(b)) = 1]_vars

(* the first call has just created the invoice of a completed booking and  *)
(* the second call on that booking is under way                            *)
C4_Witness ==
    /\ resp.op = "generate_gst_invoice"
    /\ resp.message = "GST Invoice generated successfully"
    /\ req[Client].op = "generate_gst_invoice"
    /\ req[Client].id = resp.id
    /\ Cardinality(InvoicesOf(resp.id)) = 1

(* C5: every step of a manual invoice generation on a booking that has no  *)
(* Invoice and whose stored status is not COMPLETED leaves bookings and    *)
(* invoices as they are, and the call ends with InvalidState.              *)
C5_ManualGenerationPrecondition ==
    [][\A b \in DOMAIN bookings :
            ( /\ \/ req[Client].op = "generate_gst_invoice"
                 \/ req'[Client].op = "generate_gst_invoice"
              /\ b = IF req[Client] = Idle THEN req'[Client].id
                     ELSE req[Client].id
              /\ InvoicesOf(b) = {}
              /\ bookings[b].status # "COMPLETED" )
            => /\ bookings' = bookings
               /\ invoices' = invoices
               /\ req[Client] # Idle =>
                    /\ req'[Client] = Idle
                    /\ resp'.result = "InvalidState"]_vars

C5_Witness ==
    /\ resp.op = "generate_gst_invoice"
    /\ resp.result = "InvalidState"
    /\ req[Client] = Idle
    /\ resp.id \in DOMAIN bookings
    /\ bookings[resp.id].status \in {"PENDING", "CONFIRMED", "CANCELLED"}
    /\ InvoicesOf(resp.id) = {}

(* C6: a step of update-booking-status or update-invoice-status that       *)
(* changes a stored booking or invoice is taken by a client that has       *)
(* logged in as admin.                                                     *)
C6_AdminGate ==
    [][\A p \in Procs :
            ( /\ req[p].op \in {"update_booking_status",
                                "update_invoice_status"}
              /\ req'[p] # req[p]
              /\ \/ bookings' # bookings
                 \/ invoices' # invoices )
            => p \in loggedIn]_vars

(* C7: every stored booking has a booking number, and no two stored        *)
(* bookings share one.                                                     *)
C7_BookingNumbers ==
    \A i \in DOMAIN bookings :
        /\ bookings[i].booking_number # NULL
        /\ \A j \in DOMAIN bookings :
                i # j => bookings[i].booking_number # bookings[j].booking_number

(* C8: every stored Invoice of a booking with price >= 0 has base_amount   *)
(* equal to the price, a tax that is 5% of the base rounded to a nearest   *)
(* hundredth, and total_amount = base_amount + tax.                        *)
C8_FareInvariant ==
    \A i \in DOMAIN invoices :
        LET inv == invoices[i]
        IN  bookings[inv.booking_id].price >= 0 =>
                /\ inv.base_amount = bookings[inv.booking_id].price
                /\ 100 * inv.gst_amount - 5 * inv.base_amount <= 50
                /\ 5 * inv.base_amount - 100 * inv.gst_amount <= 50
                /\ inv.total_amount = inv.base_amount + inv.gst_amount

(* an invoice whose exact tax, 0.75 hundredths, is rounded up to 1 *)
C8_Witness ==
    \E i \in DOMAIN invoices :
        /\ invoices[i].base_amount = PriceStep
        /\ invoices[i].gst_amount = 1
        /\ invoices[i].total_amount = PriceStep + 1

(* the status update-booking-status is said to leave stored *)
C9_Expected(b) ==
    IF req[Client].status = "COMPLETED" /\ InvoicesOf(b) = {}
    THEN "INVOICED" ELSE req[Client].status

(* C9 as stated: every update-booking-status call on an existing booking   *)
(* succeeds, and the stored status on return is the target, or INVOICED    *)
(* for target COMPLETED with no existing Invoice.                          *)
C9_Original ==
    [][\A b \in DOMAIN bookings :
            ( /\ req[Client].op = "update_booking_status"
              /\ req[Client].id = b
              /\ req'[Client] = Idle )
            => /\ resp'.result = "OK"
               /\ bookings'[b].status = C9_Expected(b)]_vars

(* C9, amended: whatever the current status, an update-booking-status call *)
(* on an existing booking succeeds and leaves the target stored, or        *)
(* INVOICED for target COMPLETED with no existing Invoice; unless, in that *)
(* last case, the rendering fails: then the call fails and the stored      *)
(* status is COMPLETED.                                                    *)
C9_UnrestrictedTransitions ==
    [][\A b \in DOMAIN bookings :
            ( /\ req[Client].op = "update_booking_status"
              /\ req[Client].id = b
              /\ req'[Client] = Idle )
            => IF resp'.result = "RenderFailed"
               THEN /\ req[Client].status = "COMPLETED"
                    /\ InvoicesOf(b) = {}
                    /\ bookings'[b].status = "COMPLETED"
               ELSE /\ resp'.result = "OK"
                    /\ bookings'[b].status = C9_Expected(b)]_vars

(* a booking that was invoiced has been moved back to PENDING *)
C9_Witness ==
    /\ resp.op = "update_booking_status"
    /\ resp.result = "OK"
    /\ req[Client] = Idle
    /\ resp.id \in DOMAIN bookings
    /\ bookings[resp.id].status = "PENDING"
    /\ InvoicesOf(resp.id) # {}

(* C10: every step of an update-booking-status call with target COMPLETED  *)
(* on a booking that has an Invoice leaves the invoices table as it is,    *)
(* and the call returns OK with no WhatsApp link.                          *)
C10_RepeatedCompletionNoOp ==
    [][\A b \in DOMAIN bookings :
            ( /\ req[Client].op = "update_booking_status"
              /\ req[Client].id = b
              /\ req[Client].status = "COMPLETED"
              /\ InvoicesOf(b) # {} )
            => /\ invoices' = invoices
               /\ req'[Client] = Idle =>
                    /\ resp'.result = "OK"
                    /\ resp'.whatsapp_link = None]_vars

C10_Witness ==
    /\ resp.op = "update_booking_status"
    /\ resp.result = "OK"
    /\ resp.whatsapp_link = None
    /\ req[Client] = Idle
    /\ resp.id \in DOMAIN bookings
    /\ bookings[resp.id].status = "COMPLETED"
    /\ InvoicesOf(resp.id) # {}

(* C11: a step changes a stored booking only when it belongs to an         *)
(* update-booking-status call on that booking, and no step removes a       *)
(* booking.                                                                *)
C11_OnlyStatusUpdateMutatesBookings ==
    [][\A b \in DOMAIN bookings :
            /\ b \in DOMAIN bookings'
            /\ bookings'[b] # bookings[b] =>
                    /\ req[Client].op = "update_booking_status"
                    /\ req[Client].id = b]_vars

(* C12: a resend call answers NotFound when the booking is absent,         *)
(* InvalidState when it has no Invoice and otherwise OK with a link; it    *)
(* leaves bookings and invoices as they are; and a call that directly      *)
(* follows a resend call on the same booking returns the same response.    *)
C12_ResendHasNoSideEffect ==
    [][( /\ req[Client] = Idle
         /\ req'[Client] = Idle
         /\ resp'.op = "resend_invoice_whatsapp" )
       => /\ bookings' = bookings
          /\ invoices' = invoices
          /\ resp'.result =
                IF resp'.id \notin DOMAIN bookings THEN "NotFound"
                ELSE IF InvoicesOf(resp'.id) = {} THEN "InvalidState"
                ELSE "OK"
          /\ resp'.whatsapp_link # None <=> resp'.result = "OK"
          /\ (resp.op = "resend_invoice_whatsapp" /\ resp.id = resp'.id)
                => resp'.whatsapp_link = resp.whatsapp_link]_vars

(* a link was returned for a booking whose invoice exists *)
C12_Witness ==
    /\ resp.op = "resend_invoice_whatsapp"
    /\ resp.result = "OK"
    /\ resp.whatsapp_link # None
    /\ InvoicesOf(resp.id) # {}

(* C13: a create-booking call appends exactly one booking, with status     *)
(* PENDING and no Invoice, and leaves the earlier bookings, the invoices   *)
(* and the admins as they are.                                             *)
C13_CreateBookingFrame ==
    [][( /\ req[Client] = Idle
         /\ req'[Client] = Idle
         /\ resp'.op = "create_booking" )
       => /\ Len(bookings') = Len(bookings) + 1
          /\ SubSeq(bookings', 1, Len(bookings)) = bookings
          /\ bookings'[Len(bookings')].status = "PENDING"
          /\ \A i \in DOMAIN invoices' :
                invoices'[i].booking_id # Len(bookings')
          /\ invoices' = invoices
          /\ admins' = admins]_vars

(* the second booking was created after an admin had been set up and the   *)
(* first booking invoiced                                                  *)
C13_Witness ==
    /\ resp.op = "create_booking"
    /\ admins # <<>>
    /\ Len(bookings) = 2
    /\ bookings[1].status = "INVOICED"
    /\ InvoicesOf(1) # {}
    /\ bookings[2].status = "PENDING"
    /\ InvoicesOf(2) = {}

StoredUsernames(rows) == {rows[i].username : i \in DOMAIN rows}

(* C14: after every step of interleaved create-admin calls no two admins   *)
(* share a username; a call whose username is stored when it is looked up  *)
(* goes no further, is answered AlreadyExists and leaves the admins table  *)
(* as it is; and a call changes the table only by appending its username.  *)
C14_AdminUsernameUnique ==
    [][/\ \A i, j \in DOMAIN admins' :
            i # j => admins'[i].username # admins'[j].username
       /\ \A p \in Procs :
            (req[p] = Idle /\ req'[p].op = "create_admin")
                => req'[p].username \notin StoredUsernames(admins)
       /\ (req' = req /\ resp'.op = "create_admin")
            => /\ resp'.result = "AlreadyExists"
               /\ resp'.username \in StoredUsernames(admins)
               /\ admins' = admins
       /\ admins' # admins
            => /\ resp'.op = "create_admin"
               /\ resp'.result = "OK"
               /\ resp'.username \notin StoredUsernames(admins)
               /\ Len(admins') = Len(admins) + 1
               /\ SubSeq(admins', 1, Len(admins)) = admins
               /\ admins'[Len(admins')].username = resp'.username]_vars

(* two calls passed the lookup with the same username; the second INSERT   *)
(* was rejected by the unique constraint                                   *)
C14_Witness ==
    /\ resp.op = "create_admin"
    /\ resp.result = "IntegrityError"
    /\ resp.username \in StoredUsernames(admins)
    /\ Cardinality({i \in DOMAIN admins :
                        admins[i].username = resp.username}) = 1

(* C15: the list a list-bookings call returns has every stored booking     *)
(* exactly once, most recently created first, and each entry's             *)
(* invoice_exists flag tells whether the booking has an Invoice.           *)
C15_ListNewestFirst ==
    [][( /\ req[Client] = Idle
         /\ req'[Client] = Idle
         /\ resp'.op = "view_bookings" )
       => LET body == resp'.body
          IN  /\ Len(body) = Len(bookings)
              /\ \A b \in DOMAIN bookings :
                    Cardinality({k \in DOMAIN body : body[k].id = b}) = 1
              /\ \A k, l \in DOMAIN body :
                    k < l => bookings[body[k].id].created_at
                                >= bookings[body[l].id].created_at
              /\ \A k \in DOMAIN body :
                    body[k].invoice_exists <=> InvoicesOf(body[k].id) # {}]_vars

(* the phone part C16 states: whitespace removed, then a leading "+"       *)
(* removed, then a leading "0" replaced by "91"                            *)
C16_ExpectedPhone(phone) ==
    LET packed == SelectSeq(phone, LAMBDA c : c \notin {" ", "\t"})
        bare == IF packed # <<>> /\ Head(packed) = "+"
                THEN Tail(packed) ELSE packed
    IN  IF bare # <<>> /\ Head(bare) = "0"
        THEN <<"9", "1">> \o Tail(bare)
        ELSE bare

(* C16: whenever a response carries a WhatsApp link, the link is the one   *)
(* whose phone part is the booking's phone with whitespace and a leading   *)
(* "+" removed and a leading "0" replaced by "91", every other character   *)
(* kept in place.                                                          *)
C16_PhoneNormalization ==
    resp.whatsapp_link # None =>
        resp.whatsapp_link =
            "https://wa.me/"
                \o Join(C16_ExpectedPhone(bookings[resp.id].phone))
                \o "?text=Your%20invoice%20is%20ready%3A%20"
                \o "http://127.0.0.1:8000/invoices/TNC-INV-"
                \o ToString(resp.id) \o ".pdf"

(* C17: every stored Invoice has a status of the enumerated set            *)
(* {NOT_GENERATED, GENERATED, SENT, PAID, CANCELLED}; in particular a new  *)
(* Invoice is stored as GENERATED.                                         *)
C17_InvoiceStatusEnumerated ==
    \A i \in DOMAIN invoices :
        invoices[i].status \in
            {"NOT_GENERATED", "GENERATED", "SENT", "PAID", "CANCELLED"}

(* C18: when the rendering fails in an update-booking-status call with     *)
(* target COMPLETED, the call ends with an error, the invoices table is as *)
(* it was, and the booking is stored COMPLETED with no Invoice.            *)
C18_NoRollbackOnRenderFailure ==
    [][\A b \in DOMAIN bookings :
            ( /\ req[Client].op = "update_booking_status"
              /\ req[Client].id = b
              /\ req'[Client] = Idle
              /\ resp'.result = "RenderFailed" )
            => /\ req[Client].status = "COMPLETED"
               /\ resp'.message = "Internal Server Error"
               /\ invoices' = invoices
               /\ \A i \in DOMAIN invoices' : invoices'[i].booking_id # b
               /\ bookings'[b].status = "COMPLETED"]_vars

C18_Witness ==
    /\ resp.op = "update_booking_status"
    /\ resp.result = "RenderFailed"
    /\ req[Client] = Idle
    /\ resp.id \in DOMAIN bookings
    /\ bookings[resp.id].status = "COMPLETED"
    /\ InvoicesOf(resp.id) = {}

(* C19: at the step by which an update-booking-status call to COMPLETED    *)
(* stores its Invoice and INVOICED, no request of another client is acting *)
(* on that booking as COMPLETED with no Invoice: none has passed manual    *)
(* generation's checks and none is about to store an Invoice of its own.   *)
C19_StatusUpdateIsOneUnitOfWork ==
    [][\A p, q \in Procs :
            ( /\ p # q
              /\ req[p].op = "update_booking_status"
              /\ req[p].pc = "commit2"
              /\ req'[p] = Idle
              /\ resp'.result = "OK"
              /\ invoices' # invoices )
            => ~ ( /\ req[q].id = req[p].id
                   /\ \/ /\ req[q].op = "generate_gst_invoice"
                         /\ req[q].pc = "commit"
                      \/ /\ req[q].op = "update_booking_status"
                         /\ req[q].pc = "commit2" )]_vars

(* C20: in every reachable state of the interleaved requests every booking *)
(* stored as INVOICED has an Invoice.                                      *)
C20_InvoicedImpliesInvoice ==
    \A b \in DOMAIN bookings :
        bookings[b].status = "INVOICED" =>
            \E i \in DOMAIN invoices : invoices[i].booking_id = b

(* a second INSERT for the booking has failed and was rolled back with its *)
(* INVOICED write; the booking is INVOICED by the request that won         *)
C20_Witness ==
    /\ resp.result = "IntegrityError"
    /\ resp.id \in DOMAIN bookings
    /\ bookings[resp.id].status = "INVOICED"
    /\ InvoicesOf(resp.id) # {}
    /\ \E q \in Procs : req[q] # Idle

====
